---- MODULE Spec2Model ----
(***************************************************************************)
(* uv3dp: the CTB layer run-length codec (ctb.rleEncodeGraymap and its     *)
(* decoder), the command evaluator of cmd/uv3dp (evaluate), and the        *)
(* 'bottom' filter (BottomCommand.Filter, bottomModifier).                 *)
(*                                                                         *)
(* The codec is modelled from sections 4, 6 and 7 of the specification     *)
(* together with the literal byte streams and weights asserted by          *)
(* ctb/rle_test.go (TestRleEncodeGraymap).                                 *)
(***************************************************************************)
EXTENDS Integers, Sequences, FiniteSets, TLC

VARIABLES
    \* ---- codec ----
    mode,       \* "buf": a pixel buffer is encoded then decoded; "raw": a byte stream is decoded
    Pix,        \* image.Gray.Pix: row-major 8-bit intensities
    W, H,       \* image.Gray.Rect size (Stride = W)
    cpc,        \* "start" | "encoded" | "decoded"
    row,        \* the encoder's outer loop variable y
    col,        \* the encoder's inner loop variable x
    scan,       \* the encoder's open run and the runs closed so far
    enc,        \* result of rleEncodeGraymap: [rle, bits, runs]
    stream,     \* packed stream handed to the decoder
    dec,        \* result of decodeLayer: [err, pix]
    \* ---- evaluate ----
    paramVersion, \* param.Version
    argv,       \* the arguments evaluate was called with
    args,       \* the local args: the arguments not consumed yet (a suffix of argv)
    pos,        \* index in argv of args[1]
    input,      \* the local input: the operations that made the current printable
    loaded,     \* input != nil
    err,        \* "" (nil) or the error evaluate returned
    epc,        \* "entry" | "loop" | "done"
    log,        \* the calls evaluate has made, in order
    \* ---- bottom filter ----
    base,       \* the decoded printable's Properties: [Exposure, Bottom]
    chain,      \* the bottom fields of the bottomModifier wrappers around it, innermost first
    last        \* the last Filter call: its flags and command, and what its input answered before it

codecVars == <<mode, Pix, W, H, cpc, row, col, scan, enc, stream, dec>>
evalVars == <<paramVersion, argv, args, pos, input, loaded, err, epc, log>>
bottomVars == <<base, chain, last>>
vars == <<codecVars, evalVars, bottomVars>>

(***************************************************************************)
(* Bounds                                                                  *)
(***************************************************************************)
MaxPix == 5          \* small buffers: every W x H with W*H <= MaxPix
MaxStream == 3       \* raw streams handed to the decoder: up to MaxStream bytes
MaxArgs == 4         \* evaluate: up to MaxArgs arguments
MaxCount == 3        \* bottom layer counts 0..MaxCount
MaxDepth == 2        \* 'bottom' filters applied one after another

(***************************************************************************)
(* Byte helpers                                                            *)
(***************************************************************************)
TopBit(b) == b >= 128
Low7(b) == b % 128

Rep(c, n) == [i \in 1..n |-> c]

(***************************************************************************)
(* Run Builder (spec 4.1), on the 7-bit colour that the packed stream      *)
(* carries: the test's stream writes a lone white pixel (0xff) as 0x7f and *)
(* a white run as 0xff, so the colour is the intensity's high seven bits   *)
(* and the top bit of the colour byte says "a length follows".             *)
(***************************************************************************)
NoColor == 255       \* never equal to a 7-bit colour: nothing to flush before the first pixel

Gray7(p) == p \div 2

At(pix, w, x, y) == pix[y * w + x + 1]

Flush(runs, color, stride) ==
    IF stride = 0 THEN runs
    ELSE Append(runs, [color |-> color, length |-> stride])

\* One pixel of the row-major scan: extend the run or close it and open a new one.
ScanStep(st, g) ==
    IF g = st.color
    THEN [st EXCEPT !.stride = st.stride + 1]
    ELSE [runs |-> Flush(st.runs, st.color, st.stride), color |-> g, stride |-> 1]

\* A scan that closes the open run before the first pixel of every row.
ScanPixelRowFlush(st, pix, w, x, y) ==
    ScanStep(IF x = 0
             THEN [runs |-> Flush(st.runs, st.color, st.stride), color |-> NoColor, stride |-> 0]
             ELSE st,
             Gray7(At(pix, w, x, y)))

\* The body of the loops (for y ... for x ...): the pixel at (x, y) joins the scan.
ScanPixel(st, pix, w, x, y) == ScanStep(st, Gray7(At(pix, w, x, y)))

ScanStart == [runs |-> <<>>, color |-> NoColor, stride |-> 0]

(***************************************************************************)
(* Token Packer (spec 4.2, held to the test's byte streams)                *)
(***************************************************************************)
\* A length written as 0x80 sentinels of 128 each and a remainder byte.
LenBytesSentinel(n) ==
    IF n <= 127 THEN <<n>>
    ELSE Rep(128, n \div 128) \o <<128 + (n % 128)>>

\* The length of a run of two pixels or more.
LenBytes(n) ==
    IF n <= 127 THEN <<n>>
    ELSE IF n <= 16383 THEN <<128 + n \div 256, n % 256>>
    ELSE IF n <= 2097151 THEN <<192 + n \div 65536, (n \div 256) % 256, n % 256>>
    ELSE <<224 + n \div 16777216, (n \div 65536) % 256, (n \div 256) % 256, n % 256>>

\* Every run written as a flagged colour byte and a length, lone pixels included.
RunBytesAlwaysLen(run) == <<128 + run.color>> \o LenBytes(run.length)

\* One run: a lone pixel is its colour byte alone, top bit clear.
RunBytes(run) ==
    IF run.length = 1 THEN <<run.color>>
    ELSE <<128 + run.color>> \o LenBytes(run.length)

RECURSIVE Pack(_)
Pack(runs) == IF runs = <<>> THEN <<>> ELSE RunBytes(Head(runs)) \o Pack(Tail(runs))

(***************************************************************************)
(* Weight (spec 4.3): an accumulator updated once per run                  *)
(***************************************************************************)
\* A weight that counts background runs too.
RunWeightAll(run) == run.length

RunWeight(run) == IF run.color > 0 THEN run.length ELSE 0

RECURSIVE Weight(_)
Weight(runs) == IF runs = <<>> THEN 0 ELSE RunWeight(Head(runs)) + Weight(Tail(runs))

\* The result of encodeLayer (spec 6) once every row is scanned: the last run is
\* flushed, the runs packed and weighed.  The fingerprint (a 64-bit hash of rle)
\* is not modelled.
EncodeResult(st) ==
    LET runs == Flush(st.runs, st.color, st.stride)
    IN  [rle |-> Pack(runs), bits |-> Weight(runs), runs |-> runs]

(***************************************************************************)
(* Token Unpacker and decodeLayer (spec 4.2, 6, 7)                         *)
(***************************************************************************)
\* The run at the head of s: [ok, run, used].
NextRun(s) ==
    LET code == s[1]
        bad == [ok |-> FALSE, run |-> [color |-> 0, length |-> 0], used |-> 0]
        mk(n, used) == IF n = 0 THEN bad
                       ELSE [ok |-> TRUE, run |-> [color |-> Low7(code), length |-> n],
                             used |-> used]
    IN  IF ~TopBit(code) THEN mk(1, 1)
        ELSE IF Len(s) < 2 THEN bad
        ELSE LET slen == s[2]
             IN  IF slen < 128 THEN mk(slen, 2)
                 ELSE IF slen < 192
                      THEN IF Len(s) < 3 THEN bad
                           ELSE mk((slen % 64) * 256 + s[3], 3)
                 ELSE IF slen < 224
                      THEN IF Len(s) < 4 THEN bad
                           ELSE mk((slen % 32) * 65536 + s[3] * 256 + s[4], 4)
                 ELSE IF slen < 240
                      THEN IF Len(s) < 5 THEN bad
                           ELSE mk((slen % 16) * 16777216 + s[3] * 65536 + s[4] * 256 + s[5], 5)
                 ELSE bad

RECURSIVE Unpack(_)
Unpack(s) ==
    IF s = <<>> THEN [ok |-> TRUE, runs |-> <<>>]
    ELSE LET r == NextRun(s)
         IN  IF ~r.ok THEN [ok |-> FALSE, runs |-> <<>>]
             ELSE LET rest == Unpack(SubSeq(s, r.used + 1, Len(s)))
                  IN  [ok |-> rest.ok, runs |-> IF rest.ok THEN <<r.run>> \o rest.runs ELSE <<>>]

\* A 7-bit colour shifted back without the bit extension.
Expand7Shift(c) == 2 * c

\* Bit-extend the 7-bit colour to an 8-bit intensity.
Expand7(c) == IF c = 0 THEN 0 ELSE 2 * c + 1

RECURSIVE TotalLength(_)
TotalLength(runs) ==
    IF runs = <<>> THEN 0 ELSE Head(runs).length + TotalLength(Tail(runs))

RECURSIVE Pixels(_)
Pixels(runs) ==
    IF runs = <<>> THEN <<>>
    ELSE Rep(Expand7(Head(runs).color), Head(runs).length) \o Pixels(Tail(runs))

\* A size test that accepts a short stream (the rest of the buffer left as it is).
SizeOkShort(total, w, h) == total <= w * h

\* The size test of decodeLayer: the decoded pixel count against width x height.
SizeOk(total, w, h) == total = w * h

decodeLayer(s, w, h) ==
    LET u == Unpack(s)
    IN  IF ~u.ok THEN [err |-> "MalformedStream", pix |-> <<>>]
        ELSE IF ~SizeOk(TotalLength(u.runs), w, h) THEN [err |-> "SizeMismatch", pix |-> <<>>]
        ELSE [err |-> "", pix |-> Pixels(u.runs)]

(***************************************************************************)
(* The test's buffers and expected results (ctb/rle_test.go)               *)
(***************************************************************************)
TestGray8x21 ==
    Rep(255, 8) \o Rep(0, 8) \o Rep(255, 128)
    \o <<255, 255, 255, 255, 255, 0, 0, 255>>
    \o <<255, 0, 255, 0, 255, 0, 255, 0>>
    \o Rep(0, 8)

out_rle_8x21 ==
    <<255, 8, 128, 8, 255, 128, 133, 128, 2, 255, 2, 0, 127, 0, 127, 0, 127, 128, 9>>

TestGray127x4 == Rep(0, 508)

out_rle_127x4 == <<128, 129, 252>>

TestBuffers ==
    { [pix |-> TestGray8x21, w |-> 8, h |-> 21],
      [pix |-> TestGray127x4, w |-> 127, h |-> 4] }

(***************************************************************************)
(* Inputs of the codec                                                     *)
(***************************************************************************)
\* Intensities: background and the intensity that shares its 7-bit colour, the two
\* intensities of the lowest foreground colour, a middle grey, white.
PixelValues == {0, 1, 2, 3, 128, 255}

Dims == {d \in (0..MaxPix) \X (0..MaxPix) : d[1] * d[2] <= MaxPix}

\* Long runs around the one-byte / two-byte length boundary and beyond 255.
LongLens == {127, 128, 133, 256, 508}
LongColors == {0, 128, 255}

\* The widest row of at most 133 pixels that divides n pixels into whole rows.
ShapeW(n) == CHOOSE w \in 1..133 : n % w = 0 /\ \A v \in 1..133 : n % v = 0 => v <= w

Shaped(p) == [pix |-> p, w |-> ShapeW(Len(p)), h |-> Len(p) \div ShapeW(Len(p))]

LongBuffers ==
    { Shaped(Rep(c, n)) : c \in LongColors, n \in LongLens }
    \cup { Shaped(Rep(r[1], r[2]) \o Rep(r[3], r[4])) :
           r \in LongColors \X LongLens \X LongColors \X {1, 2, 128} }


StreamBytes == {0, 1, 2, 127, 128, 129, 255}

Streams == UNION { [1..n -> StreamBytes] : n \in 0..MaxStream }

NoEnc == [rle |-> <<>>, bits |-> 0, runs |-> <<>>]
NoDec == [err |-> "none", pix |-> <<>>]

(***************************************************************************)
(* Codec: state machine                                                    *)
(***************************************************************************)
EvalIdle ==
    /\ paramVersion = FALSE /\ argv = <<>> /\ args = <<>> /\ pos = 1
    /\ input = <<>> /\ loaded = FALSE /\ err = "" /\ epc = "done" /\ log = <<>>

BottomIdle ==
    /\ base = <<>> /\ chain = <<>> /\ last = <<>>

CodecIdle ==
    /\ mode = "off" /\ Pix = <<>> /\ W = 0 /\ H = 0 /\ cpc = "decoded"
    /\ row = 0 /\ col = 0 /\ scan = ScanStart
    /\ enc = NoEnc /\ stream = <<>> /\ dec = NoDec

InitCodec ==
    /\ \/ /\ mode = "buf"
          /\ \E d \in Dims : W = d[1] /\ H = d[2]
          /\ Pix \in [1..(W * H) -> PixelValues]
          /\ stream = <<>>
       \/ /\ mode = "buf"
          /\ \E b \in LongBuffers \cup TestBuffers : Pix = b.pix /\ W = b.w /\ H = b.h
          /\ stream = <<>>
       \/ /\ mode = "raw"
          /\ Pix = <<>>
          /\ \E d \in Dims : W = d[1] /\ H = d[2]
          /\ stream \in Streams
    /\ cpc = "start"
    /\ row = 0
    /\ col = 0
    /\ scan = ScanStart
    /\ enc = NoEnc
    /\ dec = NoDec
    /\ EvalIdle
    /\ BottomIdle

\* rleEncodeGraymap, one iteration of the inner loop (for x := 0; x < size.X; x++);
\* the last pixel of a row moves the outer loop on.
EncodePixel ==
    /\ mode = "buf" /\ cpc = "start" /\ row < H /\ col < W
    /\ scan' = ScanPixel(scan, Pix, W, col, row)
    /\ IF col + 1 < W
       THEN col' = col + 1 /\ row' = row
       ELSE col' = 0 /\ row' = row + 1
    /\ UNCHANGED <<mode, Pix, W, H, cpc, enc, stream, dec, evalVars, bottomVars>>

\* rleEncodeGraymap, one iteration of the outer loop over a row of no pixels
EncodeEmptyRow ==
    /\ mode = "buf" /\ cpc = "start" /\ row < H /\ W = 0
    /\ row' = row + 1
    /\ UNCHANGED <<mode, Pix, W, H, cpc, col, scan, enc, stream, dec, evalVars, bottomVars>>

\* rleEncodeGraymap, after the loops: the last run is added, the result returned
EncodeLayer ==
    /\ mode = "buf" /\ cpc = "start" /\ row >= H
    /\ enc' = EncodeResult(scan)
    /\ stream' = enc'.rle
    /\ cpc' = "encoded"
    /\ UNCHANGED <<mode, Pix, W, H, row, col, scan, dec, evalVars, bottomVars>>

\* decodeLayer(packedStream, width, height) on the stream just encoded
DecodeEncoded ==
    /\ mode = "buf" /\ cpc = "encoded"
    /\ dec' = decodeLayer(stream, W, H)
    /\ cpc' = "decoded"
    /\ UNCHANGED <<mode, Pix, W, H, row, col, scan, enc, stream, evalVars, bottomVars>>

\* decodeLayer on a stream read from a container
DecodeRaw ==
    /\ mode = "raw" /\ cpc = "start"
    /\ dec' = decodeLayer(stream, W, H)
    /\ cpc' = "decoded"
    /\ UNCHANGED <<mode, Pix, W, H, row, col, scan, enc, stream, evalVars, bottomVars>>

NextCodec == EncodePixel \/ EncodeEmptyRow \/ EncodeLayer \/ DecodeEncoded \/ DecodeRaw

Spec == InitCodec /\ [][NextCodec]_vars

TypeCodec ==
    /\ cpc \in {"start", "encoded", "decoded"}
    /\ dec.err \in {"none", "", "SizeMismatch", "MalformedStream"}

Encoded == mode = "buf" /\ cpc # "start"
RoundTripped == mode = "buf" /\ cpc = "decoded"

(***************************************************************************)
(* Helpers of the codec properties: where run i of enc.runs lies in the    *)
(* pixel buffer and in the packed stream.                                  *)
(***************************************************************************)
\* Bytes of the token of a run (lengths up to 16383).
TokenLen(run) == IF run.length = 1 THEN 1 ELSE IF run.length <= 127 THEN 2 ELSE 3

RECURSIVE TokenStart(_, _)
TokenStart(runs, i) ==
    IF i = 1 THEN 1 ELSE TokenStart(runs, i - 1) + TokenLen(runs[i - 1])

RECURSIVE PixStart(_, _)
PixStart(runs, i) ==
    IF i = 1 THEN 1 ELSE PixStart(runs, i - 1) + runs[i - 1].length

\* The length bytes the encoder wrote for run i: what follows its colour byte.
LengthBytesOf(i) ==
    SubSeq(enc.rle, TokenStart(enc.runs, i) + 1,
           TokenStart(enc.runs, i) + TokenLen(enc.runs[i]) - 1)

\* The intensity a pixel comes back with: its high seven bits, bit-extended.
Quantised(p) == IF p < 2 THEN 0 ELSE p - (p % 2) + 1

(***************************************************************************)
(* The test's conformance streams                                          *)
(***************************************************************************)
TestVec1 ==
    (Encoded /\ Pix = TestGray8x21 /\ W = 8) => enc.rle = out_rle_8x21 /\ enc.bits = 146
TestVec2 ==
    (Encoded /\ Pix = TestGray127x4 /\ W = 127) => enc.rle = out_rle_127x4 /\ enc.bits = 0

C2_SentinelLength ==
    Encoded =>
        \A i \in 1..Len(enc.runs) :
            enc.runs[i].length >= 128 =>
                LET L == enc.runs[i].length
                    bytes == LengthBytesOf(i)
                IN  /\ \A k \in 1..Len(bytes) : TopBit(bytes[k])
                    /\ \A k \in 1..(Len(bytes) - 1) : bytes[k] = 128
                    /\ L = 128 * (Len(bytes) - 1) + Low7(bytes[Len(bytes)])

(***************************************************************************)
(* C2 (amended): a run of length L, 128 <= L <= 16383, has its length      *)
(* written as exactly two bytes: the first has its top bit set, the next   *)
(* bit clear and L div 256 in its low six bits, the second is L mod 256    *)
(* (its top bit may be clear); the decoded length is 256 * (low six bits   *)
(* of the first) + (the second).  This writes 133 white pixels as          *)
(* ff 80 85 and the 127x4 background buffer as exactly 80 81 fc.           *)
(***************************************************************************)
C2_TwoByteLength ==
    Encoded =>
        /\ \A i \in 1..Len(enc.runs) :
              (enc.runs[i].length >= 128 /\ enc.runs[i].length <= 16383) =>
                  LET L == enc.runs[i].length
                      bytes == LengthBytesOf(i)
                  IN  /\ Len(bytes) = 2
                      /\ bytes[1] >= 128 /\ bytes[1] < 192
                      /\ bytes[2] \in 0..255
                      /\ L = 256 * (bytes[1] % 64) + bytes[2]
        /\ (Pix = Rep(255, 133)) => enc.rle = <<255, 128, 133>>
        /\ (Pix = TestGray127x4) => enc.rle = <<128, 129, 252>>

\* A run of 256 pixels or more has been encoded.
C2_Witness ==
    /\ Encoded
    /\ \E i \in 1..Len(enc.runs) : enc.runs[i].length >= 256
    /\ Pix = TestGray127x4 /\ enc.rle = <<128, 129, 252>>

C7_WitnessTooMany ==
    /\ mode = "raw" /\ cpc = "decoded"
    /\ Unpack(stream).ok
    /\ TotalLength(Unpack(stream).runs) > W * H
    /\ dec.err = "SizeMismatch"

(***************************************************************************)
(* evaluate (cmd/uv3dp/main.go)                                            *)
(***************************************************************************)
commandMap ==
    {"info", "bed", "decimate", "exposure", "bottom", "lift", "retract", "resin", "select"}

\* Arguments: the help word, two command names, two file names, an option.
Options == {"-x"}
Tokens == {"help", "info", "bottom", "in.ctb", "out.uvj"} \cup Options

ArgLists == UNION { [1..n -> Tokens] : n \in 0..MaxArgs }

\* format.Parse / cmd.Parse (a pflag.FlagSet, not interspersed) take the options
\* that follow the name; Args() is what comes after them.
RECURSIVE LeadingOptions(_)
LeadingOptions(s) ==
    IF s = <<>> \/ Head(s) \notin Options THEN 0 ELSE 1 + LeadingOptions(Tail(s))

ArgsAfter(a) == SubSeq(a, 2 + LeadingOptions(Tail(a)), Len(a))

Call(op, i, ok, p) == [op |-> op, arg |-> i, ok |-> ok, p |-> p]

\* A printable is the list of operations that made it.
Made(op, i) == [op |-> op, arg |-> i]

NoInputError == "no input found before first filter command"

\* The branch of the loop body taken for argument a.
BranchNoGuard(a, ld) ==
    IF a = "help" THEN "help"
    ELSE IF a \notin commandMap THEN (IF ld THEN "output" ELSE "input")
    ELSE "command"

Branch(a, ld) ==
    IF a = "help" THEN "help"
    ELSE IF a \notin commandMap THEN (IF ld THEN "output" ELSE "input")
    ELSE IF ld THEN "command"
    ELSE "noinput"

\* The calls of the branch that loads the input, up to the first that fails.
InputCalls(i, fail) ==
    <<Call("NewFormat", i, fail # "NewFormat", <<>>)>>
    \o (IF fail = "NewFormat" THEN <<>>
        ELSE <<Call("Parse", i, fail # "Parse", <<>>)>>
             \o (IF fail = "Parse" THEN <<>>
                 ELSE <<Call("Printable", i, fail # "Printable", <<>>)>>))

\* An output branch that saves the file whatever the check said.
OutputCallsUnchecked(i, p, fail) ==
    <<Call("NewFormat", i, fail # "NewFormat", <<>>)>>
    \o (IF fail = "NewFormat" THEN <<>>
        ELSE <<Call("Parse", i, fail # "Parse", <<>>)>>
             \o (IF fail = "Parse" THEN <<>>
                 ELSE <<Call("CheckFilter", i, fail # "CheckFilter", p),
                        Call("SetPrintable", i, fail # "SetPrintable",
                             Append(p, Made("CheckFilter", i)))>>))

\* The calls of the branch that saves to a file, up to the first that fails.
OutputCalls(i, p, fail) ==
    <<Call("NewFormat", i, fail # "NewFormat", <<>>)>>
    \o (IF fail = "NewFormat" THEN <<>>
        ELSE <<Call("Parse", i, fail # "Parse", <<>>)>>
             \o (IF fail = "Parse" THEN <<>>
                 ELSE <<Call("CheckFilter", i, fail # "CheckFilter", p)>>
                      \o (IF fail = "CheckFilter" THEN <<>>
                          ELSE <<Call("SetPrintable", i, fail # "SetPrintable",
                                      Append(p, Made("CheckFilter", i)))>>)))

\* The calls of the branch that runs a filter command, up to the first that fails.
CommandCalls(i, p, fail) ==
    <<Call("NewCommander", i, TRUE, <<>>), Call("cmd.Parse", i, fail # "cmd.Parse", <<>>)>>
    \o (IF fail = "cmd.Parse" THEN <<>>
        ELSE <<Call("Filter", i, fail # "Filter", p)>>)

InitEval ==
    /\ paramVersion \in BOOLEAN
    /\ argv \in ArgLists
    /\ args = argv
    /\ pos = 1
    /\ input = <<>>
    /\ loaded = FALSE
    /\ err = ""
    /\ epc = "entry"
    /\ log = <<>>
    /\ CodecIdle
    /\ BottomIdle

\* if param.Version { ...; return }
EvalVersion ==
    /\ epc = "entry" /\ paramVersion
    /\ log' = Append(log, Call("Version", 0, TRUE, <<>>))
    /\ epc' = "done"
    /\ UNCHANGED <<paramVersion, argv, args, pos, input, loaded, err, codecVars, bottomVars>>

\* if len(args) == 0 { Usage(); return }
EvalNoArgs ==
    /\ epc = "entry" /\ ~paramVersion /\ Len(args) = 0
    /\ log' = Append(log, Call("Usage", 0, TRUE, <<>>))
    /\ epc' = "done"
    /\ UNCHANGED <<paramVersion, argv, args, pos, input, loaded, err, codecVars, bottomVars>>

EvalEnter ==
    /\ epc = "entry" /\ ~paramVersion /\ Len(args) > 0
    /\ epc' = "loop"
    /\ UNCHANGED <<paramVersion, argv, args, pos, input, loaded, err, log, codecVars, bottomVars>>

\* for len(args) > 0 { ... } return
EvalReturn ==
    /\ epc = "loop" /\ Len(args) = 0
    /\ epc' = "done"
    /\ UNCHANGED <<paramVersion, argv, args, pos, input, loaded, err, log, codecVars, bottomVars>>

\* if args[0] == "help" { Usage(); return }
EvalHelp ==
    /\ epc = "loop" /\ Len(args) > 0 /\ Branch(args[1], loaded) = "help"
    /\ log' = Append(log, Call("Usage", pos, TRUE, <<>>))
    /\ epc' = "done"
    /\ UNCHANGED <<paramVersion, argv, args, pos, input, loaded, err, codecVars, bottomVars>>

\* !found, input == nil: the file is the input
EvalInput ==
    /\ epc = "loop" /\ Len(args) > 0 /\ Branch(args[1], loaded) = "input"
    /\ \E fail \in {"", "NewFormat", "Parse", "Printable"} :
          /\ log' = log \o InputCalls(pos, fail)
          /\ err' = fail
          /\ IF fail = ""
             THEN /\ input' = <<Made("Printable", pos)>>
                  /\ loaded' = TRUE
                  /\ args' = ArgsAfter(args)
                  /\ pos' = pos + (Len(args) - Len(ArgsAfter(args)))
                  /\ epc' = "loop"
             ELSE /\ IF fail = "Printable"
                     THEN /\ args' = ArgsAfter(args)
                          /\ pos' = pos + (Len(args) - Len(ArgsAfter(args)))
                     ELSE UNCHANGED <<args, pos>>
                  /\ UNCHANGED <<input, loaded>>
                  /\ epc' = "done"
    /\ UNCHANGED <<paramVersion, argv, codecVars, bottomVars>>

\* !found, input != nil: the file is checked, then saved
EvalOutput ==
    /\ epc = "loop" /\ Len(args) > 0 /\ Branch(args[1], loaded) = "output"
    /\ \E fail \in {"", "NewFormat", "Parse", "CheckFilter", "SetPrintable"} :
          /\ log' = log \o OutputCalls(pos, input, fail)
          /\ err' = fail
          /\ IF fail \in {"NewFormat", "Parse"}
             THEN UNCHANGED <<args, pos, input, loaded>>
             ELSE /\ args' = ArgsAfter(args)
                  /\ pos' = pos + (Len(args) - Len(ArgsAfter(args)))
                  /\ IF fail = "CheckFilter"
                     THEN input' = <<>> /\ loaded' = FALSE
                     ELSE input' = Append(input, Made("CheckFilter", pos)) /\ loaded' = TRUE
          /\ epc' = IF fail = "" THEN "loop" ELSE "done"
    /\ UNCHANGED <<paramVersion, argv, codecVars, bottomVars>>

\* found, input != nil: the command filters the input
EvalCommand ==
    /\ epc = "loop" /\ Len(args) > 0 /\ Branch(args[1], loaded) = "command"
    /\ \E fail \in {"", "cmd.Parse", "Filter"} :
          /\ log' = log \o CommandCalls(pos, input, fail)
          /\ err' = fail
          /\ IF fail = "cmd.Parse"
             THEN UNCHANGED <<args, pos, input, loaded>>
             ELSE /\ args' = ArgsAfter(args)
                  /\ pos' = pos + (Len(args) - Len(ArgsAfter(args)))
                  /\ IF fail = "Filter"
                     THEN input' = <<>> /\ loaded' = FALSE
                     ELSE input' = Append(input, Made("Filter", pos)) /\ loaded' = loaded
          /\ epc' = IF fail = "" THEN "loop" ELSE "done"
    /\ UNCHANGED <<paramVersion, argv, codecVars, bottomVars>>

\* found, input == nil
EvalNoInput ==
    /\ epc = "loop" /\ Len(args) > 0 /\ Branch(args[1], loaded) = "noinput"
    /\ err' = NoInputError
    /\ epc' = "done"
    /\ UNCHANGED <<paramVersion, argv, args, pos, input, loaded, log, codecVars, bottomVars>>

NextEval ==
    \/ EvalVersion \/ EvalNoArgs \/ EvalEnter \/ EvalReturn
    \/ EvalHelp \/ EvalInput \/ EvalOutput \/ EvalCommand \/ EvalNoInput

SpecEval == InitEval /\ [][NextEval]_vars

TypeEval ==
    /\ epc \in {"entry", "loop", "done"}
    /\ args = SubSeq(argv, pos, Len(argv))
    /\ loaded <=> input # <<>>

(***************************************************************************)
(* Helpers of the evaluate properties                                      *)
(***************************************************************************)
\* The argument positions below i that hold a command name, in argument order.
CommandsBefore(i) ==
    SelectSeq([j \in 1..(i - 1) |-> j], LAMBDA j : argv[j] \in commandMap)

\* The argument positions of the filter commands that made printable p, in order.
RECURSIVE FiltersOf(_)
FiltersOf(p) ==
    IF p = <<>> THEN <<>>
    ELSE (IF Head(p).op = "Filter" THEN <<Head(p).arg>> ELSE <<>>) \o FiltersOf(Tail(p))

(***************************************************************************)
(* C8: the calls evaluate makes go through the arguments left to right;    *)
(* the only file read (format.Printable) is the first argument and no      *)
(* SetPrintable is for it; every SetPrintable follows a successful load    *)
(* and comes straight after a successful CheckFilter, for the same         *)
(* argument, of the printable made by the filter commands of all earlier   *)
(* command arguments in argument order, and writes that check's result; a  *)
(* failed call or the Usage of 'help' is the last call made, after which   *)
(* evaluate has returned, with the error when a call failed.               *)
(***************************************************************************)
C8_WriteGuardAndOrdering ==
    /\ \A k \in 1..(Len(log) - 1) : log[k].arg <= log[k + 1].arg
    /\ \A k \in 1..Len(log) : log[k].arg < pos \/ epc = "done" \/ log[k].arg = 0
    /\ \A k \in 1..Len(log) :
          log[k].op = "Printable" =>
              /\ log[k].arg = 1
              /\ \A j \in 1..Len(log) : log[j].op = "Printable" => j = k
    /\ \A k \in 1..Len(log) :
          log[k].op = "SetPrintable" =>
              /\ log[k].arg > 1
              /\ \E j \in 1..(k - 1) : log[j].op = "Printable" /\ log[j].ok
              /\ k > 1
              /\ log[k - 1].op = "CheckFilter" /\ log[k - 1].ok
              /\ log[k - 1].arg = log[k].arg
              /\ log[k].p = Append(log[k - 1].p, Made("CheckFilter", log[k].arg))
              /\ Head(log[k - 1].p) = Made("Printable", 1)
              /\ FiltersOf(log[k - 1].p) = CommandsBefore(log[k].arg)
    /\ \A k \in 1..Len(log) :
          (~log[k].ok \/ log[k].op = "Usage") =>
              /\ k = Len(log)
              /\ epc = "done"
              /\ ~log[k].ok => err # ""
    /\ err # "" => epc = "done"

\* A file has been written after two filter commands ran on the loaded input.
C8_Witness ==
    /\ epc = "done" /\ err = ""
    /\ \E k \in 1..Len(log) :
          /\ log[k].op = "SetPrintable" /\ log[k].ok
          /\ Len(FiltersOf(log[k].p)) = 2

\* A check failed in front of a write, and evaluate returned without writing.
C8_WitnessFailedCheck ==
    /\ epc = "done" /\ err = "CheckFilter"
    /\ log[Len(log)].op = "CheckFilter"
    /\ pos <= Len(argv)

(***************************************************************************)
(* C9: when evaluate is entered with arguments whose first is a command    *)
(* name, it returns the no-input error having made no call at all (no      *)
(* NewCommander, no Parse or Filter, no file read or written); and that    *)
(* error is returned only then: never once an input has been loaded.       *)
(***************************************************************************)
C9_FilterBeforeInput ==
    /\ (epc = "done" /\ ~paramVersion /\ Len(argv) > 0 /\ argv[1] \in commandMap) =>
           err = NoInputError /\ log = <<>> /\ ~loaded
    /\ err = NoInputError =>
           /\ epc = "done"
           /\ argv[1] \in commandMap
           /\ log = <<>>
    /\ loaded => err # NoInputError
    /\ \A k \in 1..Len(log) :
          log[k].op \in {"NewCommander", "cmd.Parse", "Filter"} =>
              \E j \in 1..(k - 1) : log[j].op = "Printable" /\ log[j].ok

\* A command name came first and evaluate returned the no-input error.
C9_Witness ==
    /\ epc = "done" /\ err = NoInputError
    /\ Len(argv) >= 2 /\ argv[1] = "bottom" /\ argv[2] = "in.ctb"

(***************************************************************************)
(* The 'bottom' filter (cmd/uv3dp: BottomCommand, bottomModifier)          *)
(***************************************************************************)
\* uvj/format_test.go testProperties; times and lengths in thousandths.
Layers == 4

testExposure ==
    [LightOnTime |-> 16000, LightOffTime |-> 2250, LightPWM |-> 123,
     LiftHeight |-> 5500, LiftSpeed |-> 120000,
     RetractHeight |-> 3300, RetractSpeed |-> 200000]

testBottomExposure ==
    [LightOnTime |-> 30000, LightOffTime |-> 2250, LightPWM |-> 255,
     LiftHeight |-> 5500, LiftSpeed |-> 120000,
     RetractHeight |-> 3300, RetractSpeed |-> 200000]

Indices == 0..(Layers - 1)

\* The decoded printable's own lookup: bottom exposure below the count, the default
\* exposure from count + transition on, and between them the bottom exposure with its
\* light-on time faded towards the default (the test's layer 1: 23 between 30 and 16).
BaseLayerExposure(b, index) ==
    IF index < b.Bottom.Count THEN b.Bottom.Exposure
    ELSE IF index < b.Bottom.Count + b.Bottom.Transition
    THEN [b.Bottom.Exposure EXCEPT !.LightOnTime =
              b.Bottom.Exposure.LightOnTime
              - ((b.Bottom.Exposure.LightOnTime - b.Exposure.LightOnTime)
                 * (index - b.Bottom.Count + 1)) \div (b.Bottom.Transition + 1)]
    ELSE b.Exposure

\* A printable: the decoded one (mods = <<>>) or a bottomModifier around a printable.
Printable(b, mods) == [base |-> b, mods |-> mods]

Inner(p) == Printable(p.base, SubSeq(p.mods, 1, Len(p.mods) - 1))

\* Printable.Bottom(): bottomModifier.Bottom returns mod.bottom
Bottom(p) == IF p.mods = <<>> THEN p.base.Bottom ELSE p.mods[Len(p.mods)]

\* Printable.Exposure(): bottomModifier passes its embedded Printable's through
Exposure(p) == p.base.Exposure

\* Printable.LayerExposure(index)
RECURSIVE LayerExposure(_, _)
LayerExposure(p, index) ==
    IF p.mods = <<>> THEN BaseLayerExposure(p.base, index)
    ELSE LET bot == p.mods[Len(p.mods)]
         IN  IF index < bot.Count THEN bot.Exposure
             ELSE LayerExposure(Inner(p), index)

\* NewBottomCommand's flags; the values a given flag carries.
FlagNames == {"count", "style", "light-on", "light-off", "pwm", "lift-height", "lift-speed"}

FlagSets ==
    {{}} \cup {{f} : f \in FlagNames} \cup {FlagNames} \cup {{"count", "light-on"}}

Command(flags, count) ==
    [Count |-> IF "count" \in flags THEN count ELSE 0,
     Style |-> IF "style" \in flags THEN "fade" ELSE "slow",
     LightOnTime |-> IF "light-on" \in flags THEN 45000 ELSE 0,
     LightOffTime |-> IF "light-off" \in flags THEN 1000 ELSE 0,
     LightPWM |-> IF "pwm" \in flags THEN 200 ELSE 255,
     LiftHeight |-> IF "lift-height" \in flags THEN 7000 ELSE 0,
     LiftSpeed |-> IF "lift-speed" \in flags THEN 90000 ELSE 0]

\* A Filter that takes the count from the command whether or not --count was given.
BottomAfterCountAlways(bot, flags, cmd) ==
    [Count |-> cmd.Count,
     Transition |-> bot.Transition,
     Exposure |->
        [LightOnTime |-> IF "light-on" \in flags THEN cmd.LightOnTime
                         ELSE bot.Exposure.LightOnTime,
         LightOffTime |-> IF "light-off" \in flags THEN cmd.LightOffTime
                          ELSE bot.Exposure.LightOffTime,
         LightPWM |-> IF "pwm" \in flags THEN cmd.LightPWM ELSE bot.Exposure.LightPWM,
         LiftHeight |-> IF "lift-height" \in flags THEN cmd.LiftHeight
                        ELSE bot.Exposure.LiftHeight,
         LiftSpeed |-> IF "lift-speed" \in flags THEN cmd.LiftSpeed
                       ELSE bot.Exposure.LiftSpeed,
         RetractHeight |-> bot.Exposure.RetractHeight,
         RetractSpeed |-> bot.Exposure.RetractSpeed]]

\* BottomCommand.Filter: bot := input.Bottom(), then one assignment per changed flag.
BottomAfter(bot, flags, cmd) ==
    [Count |-> IF "count" \in flags THEN cmd.Count ELSE bot.Count,
     Transition |-> bot.Transition,
     Exposure |->
        [LightOnTime |-> IF "light-on" \in flags THEN cmd.LightOnTime
                         ELSE bot.Exposure.LightOnTime,
         LightOffTime |-> IF "light-off" \in flags THEN cmd.LightOffTime
                          ELSE bot.Exposure.LightOffTime,
         LightPWM |-> IF "pwm" \in flags THEN cmd.LightPWM ELSE bot.Exposure.LightPWM,
         LiftHeight |-> IF "lift-height" \in flags THEN cmd.LiftHeight
                        ELSE bot.Exposure.LiftHeight,
         LiftSpeed |-> IF "lift-speed" \in flags THEN cmd.LiftSpeed
                       ELSE bot.Exposure.LiftSpeed,
         RetractHeight |-> bot.Exposure.RetractHeight,
         RetractSpeed |-> bot.Exposure.RetractSpeed]]

NoLast == [flags |-> {}, cmd |-> Command({}, 0), inBottom |-> <<>>, inExposure |-> <<>>]

InitBottom ==
    /\ \E c \in 0..MaxCount, t \in 0..1 :
          base = [Exposure |-> testExposure,
                  Bottom |-> [Count |-> c, Transition |-> t, Exposure |-> testBottomExposure]]
    /\ chain = <<>>
    /\ last = NoLast
    /\ CodecIdle
    /\ EvalIdle

\* output, err = cmd.Filter(input), input being the printable made so far
Filter ==
    /\ Len(chain) < MaxDepth
    /\ \E flags \in FlagSets :
       \E count \in (IF "count" \in flags THEN 0..MaxCount ELSE {0}) :
          LET in == Printable(base, chain)
              cmd == Command(flags, count)
          IN  /\ chain' = Append(chain, BottomAfter(Bottom(in), flags, cmd))
              /\ last' = [flags |-> flags, cmd |-> cmd, inBottom |-> Bottom(in),
                          inExposure |-> [i \in Indices |-> LayerExposure(in, i)]]
    /\ UNCHANGED <<base, codecVars, evalVars>>

NextBottom == Filter

SpecBottom == InitBottom /\ [][NextBottom]_vars

\* The printable the last Filter returned, and the one it was given.
Output == Printable(base, chain)
Input == Inner(Output)

(***************************************************************************)
(* C6 (as stated), for printables without transition layers: the effective *)
(* exposure of layer i of a printable whose Bottom().Count is c is its     *)
(* Bottom().Exposure when i < c and its default Exposure() when i >= c,    *)
(* whether the printable was just decoded or came out of 'bottom' filters. *)
(***************************************************************************)
C6_EffectiveExposureLookup ==
    base.Bottom.Transition = 0 =>
        \A i \in Indices :
            LayerExposure(Output, i) =
                (IF i < Bottom(Output).Count THEN Bottom(Output).Exposure
                 ELSE Exposure(Output))

(***************************************************************************)
(* C10: a 'bottom' Filter leaves its input answering as before (Bottom()   *)
(* and LayerExposure of every layer); the wrapper's Bottom() equals the    *)
(* input's in Transition, RetractHeight and RetractSpeed always and in     *)
(* each of Count, LightOnTime, LightOffTime, LightPWM, LiftHeight and      *)
(* LiftSpeed unless that field's flag was given; and from the resulting    *)
(* count on, the wrapper's LayerExposure is the input's.                   *)
(***************************************************************************)
C10_BottomFrame ==
    chain # <<>> =>
        LET bin == Bottom(Input)
            bout == Bottom(Output)
            f == last.flags
        IN  /\ bin = last.inBottom
            /\ \A i \in Indices : LayerExposure(Input, i) = last.inExposure[i]
            /\ bout.Transition = bin.Transition
            /\ bout.Exposure.RetractHeight = bin.Exposure.RetractHeight
            /\ bout.Exposure.RetractSpeed = bin.Exposure.RetractSpeed
            /\ "count" \notin f => bout.Count = bin.Count
            /\ "light-on" \notin f => bout.Exposure.LightOnTime = bin.Exposure.LightOnTime
            /\ "light-off" \notin f => bout.Exposure.LightOffTime = bin.Exposure.LightOffTime
            /\ "pwm" \notin f => bout.Exposure.LightPWM = bin.Exposure.LightPWM
            /\ "lift-height" \notin f => bout.Exposure.LiftHeight = bin.Exposure.LiftHeight
            /\ "lift-speed" \notin f => bout.Exposure.LiftSpeed = bin.Exposure.LiftSpeed
            /\ (f = {} \/ f = {"style"}) => bout = bin
            /\ \A i \in Indices :
                  i >= bout.Count => LayerExposure(Output, i) = LayerExposure(Input, i)

\* A filter given only --light-on ran on a printable with bottom layers and a transition.
C10_Witness ==
    /\ chain # <<>>
    /\ last.flags = {"light-on"}
    /\ Bottom(Input).Count = 2 /\ Bottom(Input).Transition = 1
    /\ Bottom(Output).Exposure.LightOnTime = 45000
    /\ Bottom(Output).Count = 2

====
